---------------------------- MODULE Spec2Model ----------------------------
(***************************************************************************)
(* Video-Engagement-Analytics: the record-oriented core (sessionizer,      *)
(* aggregator, metrics engine, churn dataset) as a state machine of        *)
(* library calls over one caller-owned sequence of WatchEvent records.     *)
(*                                                                         *)
(* Time is counted in whole minutes since an epoch and every event lives   *)
(* in one time zone, so datetime.date() is event_time \div DayMinutes.     *)
(* Python floats are modelled as exact fractions <<numerator, denominator>>*)
(* in lowest terms.  Where data_contracts.py and metrics.py hold both      *)
(* sides of an unresolved merge, the "Updated upstream" side is the one    *)
(* the rest of the package (features.py, churn_model.py, tests) uses, and  *)
(* it is the side modelled here.                                           *)
(***************************************************************************)
EXTENDS Integers, Sequences, FiniteSets, Bags, TLC

VARIABLES
    events,    \* the caller's sequence of WatchEvent records (never mutated)
    call,      \* name of the library function called last ("none" at start)
    input,     \* the positional argument handed to that call
    gap,       \* session_gap_minutes of the last call that takes one
    horizon,   \* horizon_days of the last call that takes one
    thresholds_given, \* thresholds of the last drop_off_positions call
    days_given,       \* days of the last retention_curve call
    ret,       \* outcome of the call: [raised |-> exception name, value |-> result]
    frames     \* the calls in progress on concurrent threads, <<>> when none

vars == <<events, call, input, gap, horizon, thresholds_given, days_given, ret, frames>>

---------------------------------------------------------------------------
(* Bounds of the explored inputs.                                          *)

MaxEvents == 3

UserIds == {"u1", "u1-1"}
\* The same ids in Python's str order (code points: "u1" is a proper prefix).
UserIdOrder == <<"u1", "u1-1">>
Times == {0, 30, 1450}
\* session_gap_minutes is an unchecked int: a negative gap is accepted too.
GapValues == {-1, 0, 29, 30}
\* horizon_days is an unchecked int as well.
HorizonValues == {-1, 0, 1}
\* thresholds of drop_off_positions: the default, the tests', none, and
\* two within one percent of each other (0.5 and 0.505)
ThresholdChoices ==
    { << <<1, 4>>, <<1, 2>>, <<3, 4>> >>, << <<1, 2>>, <<9, 10>> >>, <<>>,
      << <<1, 2>>, <<101, 200>> >> }
\* days of retention_curve: the default, one within the explored times, one
\* offset alone, and a list out of order with a repeated offset
DayChoices == { <<1, 7, 30>>, <<0, 1>>, <<7>>, <<7, 0, 7>> }
\* Event times spread over nine days: 00:00, 00:10 and 23:55 of day 0,
\* 00:05 of day 1, 00:05 of day 7 and 00:00 of day 8.
WeekTimes == {0, 10, 1435, 1445, 10085, 11520}
WeekPayload == <<"v1", "c1", 40, 60>>
\* Concurrent calls: two threads, each with its own sequence of at most
\* MaxThreadEvents events.
MaxThreadEvents == 2
Threads == {1, 2}
\* Events of one user at one instant that differ in creator and watch time.
CreatorIds == {"c1", "c2", "c3"}
WatchedChoices == {0, 25, 75}
\* top_n of creator_contribution: an unchecked int, 3 by default
TopNChoices == {-1, 0, 1, 2, 3}
\* (video_id, creator_id, watched_seconds, video_duration) offered to the
\* WatchEvent constructor; the last two are rejected by it.
RawPayloads ==
    { <<"v1", "c1", 30, 60>>, <<"v2", "c2", 90, 60>>,
      <<"v3", "c1", 10, 0>>, <<"v3", "", 10, 60>> }

---------------------------------------------------------------------------
(* Program constants.                                                      *)

DayMinutes == 1440
DefaultGap == 30
DefaultHorizon == 7
DefaultThresholds == << <<1, 4>>, <<1, 2>>, <<3, 4>> >>
DefaultDays == <<1, 7, 30>>

---------------------------------------------------------------------------
(* Outcomes of a call.                                                     *)

Ok(v) == [raised |-> "none", value |-> v]
Raise(exc) == [raised |-> exc, value |-> <<>>]

---------------------------------------------------------------------------
(* Exact arithmetic standing for Python floats.                            *)

RECURSIVE Gcd(_, _)
Gcd(a, b) == IF b = 0 THEN a ELSE Gcd(b, a % b)

Abs(n) == IF n < 0 THEN -n ELSE n

\* n/d in lowest terms, d > 0.
Frac(n, d) ==
    LET g == Gcd(Abs(n), d)
    IN  IF n = 0 THEN <<0, 1>> ELSE <<n \div g, d \div g>>

FracZero == <<0, 1>>
FracOne == <<1, 1>>
FracOfInt(n) == <<n, 1>>
FracAdd(a, b) == Frac(a[1] * b[2] + b[1] * a[2], a[2] * b[2])
FracLess(a, b) == a[1] * b[2] < b[1] * a[2]
FracLeq(a, b) == a[1] * b[2] <= b[1] * a[2]
FracNeg(a) == <<-a[1], a[2]>>
FracSub(a, b) == FracAdd(a, FracNeg(b))
FracMul(a, b) == Frac(a[1] * b[1], a[2] * b[2])
\* a / b for b # 0
FracDiv(a, b) ==
    IF b[1] < 0 THEN Frac(-(a[1] * b[2]), a[2] * (-b[1])) ELSE Frac(a[1] * b[2], a[2] * b[1])
\* a / k for an integer k > 0
FracDivInt(a, k) == Frac(a[1], a[2] * k)
\* Python's min(a, b): b only when b < a
FracMin(a, b) == IF FracLess(b, a) THEN b ELSE a

RECURSIVE SumInts(_)
SumInts(s) == IF s = <<>> THEN 0 ELSE Head(s) + SumInts(Tail(s))

RECURSIVE SumFracs(_)
SumFracs(s) == IF s = <<>> THEN FracZero ELSE FracAdd(Head(s), SumFracs(Tail(s)))

Range(s) == {s[i] : i \in DOMAIN s}

\* A Python dict read as a mapping: later bindings replace earlier ones.
DictSet(d, k, v) == (k :> v) @@ d
EmptyDict == <<>>

---------------------------------------------------------------------------
(* data_contracts.py: WatchEvent                                           *)

WatchEvent(user, video, creator, time, watched, duration) ==
    [user_id |-> user, video_id |-> video, creator_id |-> creator,
     event_time |-> time, watched_seconds |-> watched, video_duration |-> duration]

PostInitAcceptingZeroDuration(e) ==
    IF e.user_id = "" THEN "ValueError"
    ELSE IF e.video_id = "" THEN "ValueError"
    ELSE IF e.creator_id = "" THEN "ValueError"
    ELSE IF e.watched_seconds < 0 THEN "ValueError"
    ELSE IF e.video_duration < 0 THEN "ValueError"
    ELSE "none"

\* WatchEvent.__post_init__: the exception it raises, "none" when it accepts.
PostInit(e) ==
    IF e.user_id = "" THEN "ValueError"
    ELSE IF e.video_id = "" THEN "ValueError"
    ELSE IF e.creator_id = "" THEN "ValueError"
    ELSE IF e.watched_seconds < 0 THEN "ValueError"
    ELSE IF e.video_duration <= 0 THEN "ValueError"
    ELSE "none"

\* Rows and mappings as they reach the loader and the sessionizer, before
\* any validation: two well-formed ones and one for each schema violation.
IntakeRecords ==
    { WatchEvent("u1", "v1", "c1", 0, 30, 60), WatchEvent("u1", "v2", "c2", 30, 90, 60),
      WatchEvent("u1", "v1", "c1", 0, 30, 0), WatchEvent("u1", "v1", "c1", 0, 30, -60),
      WatchEvent("u1", "v1", "c1", 0, -1, 60), WatchEvent("", "v1", "c1", 0, 30, 60),
      WatchEvent("u1", "", "c1", 0, 30, 60), WatchEvent("u1", "v1", "", 0, 30, 60) }

IntakeSeqs == UNION { [1..n -> IntakeRecords] : n \in 0..MaxEvents }

RawEvents ==
    { WatchEvent(u, p[1], p[2], t, p[3], p[4]) :
        u \in UserIds, t \in Times, p \in RawPayloads }

\* The records that exist: those the constructor did not reject.
EventDomain == { e \in RawEvents : PostInit(e) = "none" }

EventSeqs == UNION { [1..n -> EventDomain] : n \in 0..MaxEvents }

WeekEventDomain ==
    { e \in { WatchEvent(u, WeekPayload[1], WeekPayload[2], t, WeekPayload[3], WeekPayload[4]) :
                u \in UserIds, t \in WeekTimes } : PostInit(e) = "none" }

CreatorEventDomain ==
    { e \in { WatchEvent("u1", "v1", c, 0, w, 100) : c \in CreatorIds, w \in WatchedChoices } :
        PostInit(e) = "none" }

CreatorEventSeqs == UNION { [1..n -> CreatorEventDomain] : n \in 0..MaxEvents }

ThreadEventDomain ==
    { e \in { WatchEvent("u1", "v1", "c1", 0, 30, 60),
              WatchEvent("u1", "v2", "c2", 1450, 90, 60),
              WatchEvent("u1-1", "v1", "c1", 0, 30, 60) } : PostInit(e) = "none" }

ThreadEventSeqs == UNION { [1..n -> ThreadEventDomain] : n \in 0..MaxThreadEvents }

WeekEventSeqs == UNION { [1..n -> WeekEventDomain] : n \in 0..MaxEvents }

DateOfOmitted(t) == t

\* datetime.date(): the calendar day of a timestamp
DateOf(t) == t \div DayMinutes

\* Python's < on the str values in use
StrLess(a, b) ==
    LET Rank(s) == CHOOSE i \in DOMAIN UserIdOrder : UserIdOrder[i] = s
    IN  Rank(a) < Rank(b)

---------------------------------------------------------------------------
(* features.py: sessionize_events                                          *)

\* _ensure_watch_events on a sequence of WatchEvent: list(events)
EnsureWatchEvents(evs) == [i \in 1..Len(evs) |-> evs[i]]

\* WatchEvent(**fields) for each record in turn: the first record the
\* constructor rejects ends the call with its exception.  This is the loop
\* of load_watch_events over the rows and of _ensure_watch_events over
\* mappings.
ConstructAll(records) ==
    IF \E i \in DOMAIN records : PostInit(records[i]) # "none"
    THEN Raise(PostInit(records[CHOOSE i \in DOMAIN records :
                            /\ PostInit(records[i]) # "none"
                            /\ \A j \in 1..(i - 1) : PostInit(records[j]) = "none"]))
    ELSE Ok([i \in 1..Len(records) |-> records[i]])

\* data_contracts.py: load_watch_events, given the rows of the file
LoadWatchEvents(rows) == ConstructAll(rows)

EventKeyLessUserOnly(a, b) == StrLess(a.user_id, b.user_id)

\* The sort key (event.user_id, event.event_time), compared as tuples.
EventKeyLess(a, b) ==
    \/ StrLess(a.user_id, b.user_id)
    \/ a.user_id = b.user_id /\ a.event_time < b.event_time

\* One insertion of a stable sort: e goes after every element whose key is
\* not greater than its own.
InsertByKeyDroppingTies(sorted, e) ==
    LET Before(x) == EventKeyLess(x, e)
        After(x) == EventKeyLess(e, x)
    IN  SelectSeq(sorted, Before) \o <<e>> \o SelectSeq(sorted, After)

InsertByKey(sorted, e) ==
    LET NotAfter(x) == ~EventKeyLess(e, x)
        After(x) == EventKeyLess(e, x)
    IN  SelectSeq(sorted, NotAfter) \o <<e>> \o SelectSeq(sorted, After)

\* sorted(normalized, key=lambda event: (event.user_id, event.event_time))
RECURSIVE SortEvents(_)
SortEvents(evs) ==
    IF evs = <<>> THEN <<>>
    ELSE InsertByKey(SortEvents(SubSeq(evs, 1, Len(evs) - 1)), evs[Len(evs)])

\* f"{event.user_id}-{index}"
SessionId(user, index) == user \o "-" \o ToString(index)

\* should_start_new, given the user's previous event time
ShouldStartNewInclusive(has_previous, previous, event_time, gap_minutes) ==
    ~has_previous \/ (event_time - previous) >= gap_minutes

ShouldStartNewReversed(has_previous, previous, event_time, gap_minutes) ==
    ~has_previous \/ (event_time - previous) < gap_minutes

ShouldStartNew(has_previous, previous, event_time, gap_minutes) ==
    ~has_previous \/ (event_time - previous) > gap_minutes

\* completion = min(event.watched_seconds / event.video_duration, 1.0)
CompletionUnclamped(event) == Frac(event.watched_seconds, event.video_duration)

Completion(event) ==
    FracMin(Frac(event.watched_seconds, event.video_duration), FracOne)

\* index = session_counters.get(event.user_id, 0) + 1
NextIndexShared(session_counters, user) ==
    LET all == { session_counters[u] : u \in DOMAIN session_counters }
    IN  (IF all = {} THEN 0 ELSE CHOOSE m \in all : \A x \in all : x <= m) + 1

NextIndexGlobal(session_counters, user) ==
    SumInts([i \in DOMAIN UserIdOrder |->
                IF UserIdOrder[i] \in DOMAIN session_counters
                THEN session_counters[UserIdOrder[i]] ELSE 0]) + 1

NextIndex(session_counters, user) ==
    (IF user \in DOMAIN session_counters THEN session_counters[user] ELSE 0) + 1

SessionStartAlwaysSet(session_start, should_start_new, session_id, event_time) ==
    DictSet(session_start, session_id, event_time)

\* session_start[session_id] = event.event_time, in the branch that starts
\* a session only
SessionStartAfter(session_start, should_start_new, session_id, event_time) ==
    IF should_start_new THEN DictSet(session_start, session_id, event_time)
    ELSE session_start

\* The four dictionaries and the output list before the loop.
SessionizeInitial ==
    [session_counters |-> EmptyDict, last_event_time |-> EmptyDict,
     current_session |-> EmptyDict, session_start |-> EmptyDict,
     enriched |-> <<>>]

\* One iteration of "for event in sorted_events".
SessionizeStep(st, event, gap_minutes) ==
    LET user == event.user_id
        has_previous == user \in DOMAIN st.last_event_time
        previous == IF has_previous THEN st.last_event_time[user] ELSE 0
        should_start_new ==
            ShouldStartNew(has_previous, previous, event.event_time, gap_minutes)
        index == NextIndex(st.session_counters, user)
        counters == IF should_start_new
                    THEN DictSet(st.session_counters, user, index)
                    ELSE st.session_counters
        current == IF should_start_new
                   THEN DictSet(st.current_session, user, SessionId(user, index))
                   ELSE st.current_session
        session_id == current[user]
        starts == SessionStartAfter(st.session_start, should_start_new, session_id,
                                    event.event_time)
    IN  [session_counters |-> counters,
         last_event_time |-> DictSet(st.last_event_time, user, event.event_time),
         current_session |-> current,
         session_start |-> starts,
         enriched |-> Append(st.enriched,
            [user_id |-> event.user_id, video_id |-> event.video_id,
             creator_id |-> event.creator_id, event_time |-> event.event_time,
             watched_seconds |-> event.watched_seconds,
             video_duration |-> event.video_duration,
             session_id |-> session_id,
             session_start |-> starts[session_id],
             completion_ratio |-> Completion(event),
             watch_day |-> DateOf(event.event_time)])]

RECURSIVE SessionizeLoop(_, _, _)
SessionizeLoop(sorted_events, st, gap_minutes) ==
    IF sorted_events = <<>> THEN st
    ELSE SessionizeLoop(Tail(sorted_events),
                        SessionizeStep(st, Head(sorted_events), gap_minutes),
                        gap_minutes)

\* sessionize_events(events, session_gap_minutes)
SessionizeEvents(evs, gap_minutes) ==
    LET normalized == EnsureWatchEvents(evs)
    IN  IF normalized = <<>> THEN Ok(<<>>)
        ELSE IF \E i \in DOMAIN normalized : normalized[i].video_duration = 0
        THEN Raise("ZeroDivisionError")
        ELSE Ok(SessionizeLoop(SortEvents(normalized), SessionizeInitial,
                               gap_minutes).enriched)

\* sessionize_events given mappings instead of WatchEvent instances:
\* _ensure_watch_events constructs a WatchEvent for each of them first.
SessionizeMappings(records, gap_minutes) ==
    LET normalized == ConstructAll(records)
    IN  IF normalized.raised # "none" THEN normalized
        ELSE SessionizeEvents(normalized.value, gap_minutes)

---------------------------------------------------------------------------
(* features.py: aggregate_sessions                                         *)

\* The keys of the sessions dict, in insertion order.
RECURSIVE SessionKeys(_)
SessionKeys(evs) ==
    IF evs = <<>> THEN <<>>
    ELSE LET rest == SessionKeys(SubSeq(evs, 1, Len(evs) - 1))
             id == evs[Len(evs)].session_id
         IN  IF id \in Range(rest) THEN rest ELSE Append(rest, id)

\* sessions[session_id]: the members in input order
SessionMembers(evs, id) ==
    LET Member(e) == e.session_id = id IN SelectSeq(evs, Member)

SortByTimeOmitted(evs) == evs

\* sorted(events, key=lambda event: event.event_time), stable
RECURSIVE SortByTime(_)
SortByTime(evs) ==
    IF evs = <<>> THEN <<>>
    ELSE LET e == evs[Len(evs)]
             NotAfter(x) == x.event_time <= e.event_time
             After(x) == x.event_time > e.event_time
             sorted == SortByTime(SubSeq(evs, 1, Len(evs) - 1))
         IN  SelectSeq(sorted, NotAfter) \o <<e>> \o SelectSeq(sorted, After)

\* The SessionSummary of one group.
Summarize(session_id, members) ==
    LET events_sorted == SortByTime(members)
        n == Len(events_sorted)
        session_start == events_sorted[1].session_start
        session_end == events_sorted[n].event_time
    IN  [session_id |-> session_id,
         user_id |-> events_sorted[1].user_id,
         session_start |-> session_start,
         session_end |-> session_end,
         videos_watched |-> Cardinality({ events_sorted[i].video_id : i \in 1..n }),
         creators_engaged |-> Cardinality({ events_sorted[i].creator_id : i \in 1..n }),
         session_watch_seconds |->
            SumInts([i \in 1..n |-> events_sorted[i].watched_seconds]),
         mean_completion_ratio |->
            FracDivInt(SumFracs([i \in 1..n |-> events_sorted[i].completion_ratio]), n),
         session_duration_minutes |-> FracOfInt(session_end - session_start)]

\* The sort key (summary.user_id, summary.session_start), compared as tuples.
SummaryKeyLess(a, b) ==
    \/ StrLess(a.user_id, b.user_id)
    \/ a.user_id = b.user_id /\ a.session_start < b.session_start

RECURSIVE InsertionSortSummaries(_)
InsertionSortSummaries(summaries) ==
    IF summaries = <<>> THEN <<>>
    ELSE LET s == summaries[Len(summaries)]
             NotAfter(x) == ~SummaryKeyLess(s, x)
             After(x) == SummaryKeyLess(s, x)
             sorted == InsertionSortSummaries(SubSeq(summaries, 1, Len(summaries) - 1))
         IN  SelectSeq(sorted, NotAfter) \o <<s>> \o SelectSeq(sorted, After)

SortSummariesOmitted(summaries) == summaries

\* summaries.sort(key=lambda summary: (summary.user_id, summary.session_start))
SortSummaries(summaries) == InsertionSortSummaries(summaries)

\* aggregate_sessions(sessionized_events)
AggregateSessions(sessionized_events) ==
    IF sessionized_events = <<>> THEN Ok(<<>>)
    ELSE LET keys == SessionKeys(sessionized_events)
         IN  Ok(SortSummaries(
                [k \in 1..Len(keys) |->
                    Summarize(keys[k], SessionMembers(sessionized_events, keys[k]))]))

---------------------------------------------------------------------------
(* metrics.py                                                              *)

\* min(event.watched_seconds / event.video_duration, 1.0)
MetricsRatio(event) ==
    FracMin(Frac(event.watched_seconds, event.video_duration), FracOne)

CompletionRateNoGuard(evs) ==
    IF Len(evs) = 0 THEN Raise("ZeroDivisionError")
    ELSE Ok(FracDivInt(SumFracs([i \in 1..Len(evs) |-> MetricsRatio(evs[i])]), Len(evs)))

\* completion_rate(events)
CompletionRate(evs) ==
    IF evs = <<>> THEN Ok(FracZero)
    ELSE IF \E i \in DOMAIN evs : evs[i].video_duration = 0
    THEN Raise("ZeroDivisionError")
    ELSE Ok(FracDivInt(SumFracs([i \in 1..Len(evs) |-> MetricsRatio(evs[i])]), Len(evs)))

\* f"below_{int(th * 100)}"
DropOffKey(th) == "below_" \o ToString((th[1] * 100) \div th[2])

\* The dict built by assigning the value of each threshold's key in turn.
RECURSIVE DropOffDict(_, _, _)
DropOffDict(thresholds, ratios, empty) ==
    IF thresholds = <<>> THEN EmptyDict
    ELSE LET th == thresholds[Len(thresholds)]
             below == Cardinality({ i \in DOMAIN ratios : FracLess(ratios[i], th) })
         IN  DictSet(DropOffDict(SubSeq(thresholds, 1, Len(thresholds) - 1), ratios, empty),
                     DropOffKey(th),
                     IF empty THEN FracZero ELSE Frac(below, Len(ratios)))

\* drop_off_positions(events, thresholds)
DropOffPositions(evs, thresholds) ==
    IF evs = <<>> THEN Ok(DropOffDict(thresholds, <<>>, TRUE))
    ELSE IF \E i \in DOMAIN evs : evs[i].video_duration = 0
    THEN Raise("ZeroDivisionError")
    ELSE Ok(DropOffDict(thresholds, [i \in 1..Len(evs) |-> MetricsRatio(evs[i])], FALSE))

\* average_session_duration(session_summary)
AverageSessionDuration(session_summary) ==
    IF session_summary = <<>> THEN Ok(FracZero)
    ELSE Ok(FracDivInt(
            SumFracs([i \in 1..Len(session_summary) |->
                        session_summary[i].session_duration_minutes]),
            Len(session_summary)))

SliceToOneLess(s, n) ==
    SubSeq(s, 1, IF n - 1 < Len(s) THEN n - 1 ELSE Len(s))

\* shares[:top_n]: the first top_n items, all but the last -top_n for a
\* negative top_n
SliceTo(s, n) ==
    LET stop == IF n >= 0 THEN (IF n < Len(s) THEN n ELSE Len(s))
                ELSE (IF Len(s) + n > 0 THEN Len(s) + n ELSE 0)
    IN  SubSeq(s, 1, stop)

---------------------------------------------------------------------------
(* features.py: daily_active_users, creator_watch_share, retention_curve   *)

\* The elements of a set of integers in ascending order.
RECURSIVE Ascending(_)
Ascending(S) ==
    IF S = {} THEN <<>>
    ELSE LET least == CHOOSE x \in S : \A y \in S : x <= y
         IN  <<least>> \o Ascending(S \ {least})

\* daily_active_users(events): one DailyActiveCount per day, sorted by date
DailyActiveUsers(evs) ==
    LET normalized == EnsureWatchEvents(evs)
        days == Ascending({ DateOf(normalized[i].event_time) : i \in DOMAIN normalized })
    IN  IF normalized = <<>> THEN Ok(<<>>)
        ELSE Ok([k \in 1..Len(days) |->
                [date |-> days[k],
                 active_users |->
                    Cardinality({ normalized[i].user_id :
                        i \in { j \in DOMAIN normalized :
                                DateOf(normalized[j].event_time) = days[k] } })]])

WauWindowStartEightDays(latest_day) == latest_day - 7

\* wau_window_start = latest_day - timedelta(days=6)
WauWindowStart(latest_day) == latest_day - 6

\* dau_wau_ratio(events)
DauWauRatio(evs) ==
    IF evs = <<>> THEN Ok([dau |-> FracZero, wau |-> FracZero, ratio |-> FracZero])
    ELSE LET active_counts == DailyActiveUsers(evs).value
         IN  IF active_counts = <<>>
             THEN Ok([dau |-> FracZero, wau |-> FracZero, ratio |-> FracZero])
             ELSE LET latest_day == active_counts[Len(active_counts)].date
                      dau_entry ==
                          active_counts[CHOOSE k \in DOMAIN active_counts :
                              /\ active_counts[k].date = latest_day
                              /\ \A j \in 1..(k - 1) : active_counts[j].date # latest_day]
                      wau_window_start == WauWindowStart(latest_day)
                      wau_users ==
                          { evs[i].user_id :
                              i \in { j \in DOMAIN evs :
                                      /\ wau_window_start <= DateOf(evs[j].event_time)
                                      /\ DateOf(evs[j].event_time) <= latest_day } }
                      wau == Cardinality(wau_users)
                  IN  Ok([dau |-> FracOfInt(dau_entry.active_users),
                          wau |-> FracOfInt(wau),
                          ratio |-> IF wau # 0 THEN Frac(dau_entry.active_users, wau)
                                    ELSE FracZero])

\* The keys of the totals dict, in insertion order.
RECURSIVE CreatorKeys(_)
CreatorKeys(evs) ==
    IF evs = <<>> THEN <<>>
    ELSE LET rest == CreatorKeys(SubSeq(evs, 1, Len(evs) - 1))
             id == evs[Len(evs)].creator_id
         IN  IF id \in Range(rest) THEN rest ELSE Append(rest, id)

\* shares.sort(key=lambda share: share.watch_seconds, reverse=True), stable
RECURSIVE SortSharesDescending(_)
SortSharesDescending(shares) ==
    IF shares = <<>> THEN <<>>
    ELSE LET s == shares[Len(shares)]
             NotAfter(x) == x.watch_seconds >= s.watch_seconds
             After(x) == x.watch_seconds < s.watch_seconds
             sorted == SortSharesDescending(SubSeq(shares, 1, Len(shares) - 1))
         IN  SelectSeq(sorted, NotAfter) \o <<s>> \o SelectSeq(sorted, After)

TotalWatchLargest(totals) ==
    IF totals = <<>> THEN 0
    ELSE CHOOSE m \in Range(totals) : \A x \in Range(totals) : x <= m

\* total_watch = sum(totals.values())
TotalWatch(totals) == SumInts(totals)

\* creator_watch_share(events)
CreatorWatchShare(evs) ==
    LET normalized == EnsureWatchEvents(evs)
        keys == CreatorKeys(normalized)
        Total(c) ==
            LET Mine(e) == e.creator_id = c
                mine == SelectSeq(normalized, Mine)
            IN  SumInts([i \in 1..Len(mine) |-> mine[i].watched_seconds])
        total_watch == TotalWatch([k \in 1..Len(keys) |-> Total(keys[k])])
    IN  IF normalized = <<>> THEN Ok(<<>>)
        ELSE Ok(SortSharesDescending(
                [k \in 1..Len(keys) |->
                    [creator_id |-> keys[k],
                     watch_seconds |-> Total(keys[k]),
                     watch_share |-> IF total_watch # 0
                                     THEN Frac(Total(keys[k]), total_watch)
                                     ELSE FracZero]]))

TargetDayAbsolute(first_day, day) == day

TargetDayOneLater(first_day, day) == first_day + day + 1

\* target_day = first_day + timedelta(days=day)
TargetDay(first_day, day) == first_day + day

\* retention_curve(events, days)
RetentionCurve(evs, days) ==
    LET normalized == EnsureWatchEvents(evs)
        sessionized == SessionizeEvents(normalized, DefaultGap)
        out == sessionized.value
        users == { out[i].user_id : i \in DOMAIN out }
        WatchDays(u) == { out[i].watch_day : i \in { j \in DOMAIN out : out[j].user_id = u } }
        FirstWatch(u) == CHOOSE d \in WatchDays(u) : \A x \in WatchDays(u) : d <= x
        cohort_size == Cardinality(users)
        Retained(day) == Cardinality({ u \in users : TargetDay(FirstWatch(u), day) \in WatchDays(u) })
    IN  IF normalized = <<>>
        THEN Ok([k \in 1..Len(days) |-> [day |-> days[k], retention_rate |-> FracZero]])
        ELSE IF sessionized.raised # "none" THEN sessionized
        ELSE Ok([k \in 1..Len(days) |->
                    [day |-> days[k],
                     retention_rate |-> IF cohort_size # 0
                                        THEN Frac(Retained(days[k]), cohort_size)
                                        ELSE FracZero]])

\* metrics.py: creator_contribution(events, top_n)
CreatorContribution(evs, top_n) ==
    LET shares == CreatorWatchShare(evs)
    IN  IF shares.raised # "none" THEN shares ELSE Ok(SliceTo(shares.value, top_n))

---------------------------------------------------------------------------
(* churn_model.py                                                          *)

SummariesOfEveryUser(sessions, u) == sessions

\* The summaries of one user, in the order create_user_features meets them.
SummariesOf(sessions, u) ==
    LET Mine(x) == x.user_id = u IN SelectSeq(sessions, Mine)

\* create_user_features(events, session_gap_minutes): user_id -> UserFeatures
CreateUserFeatures(evs, gap_minutes) ==
    LET sessionized == SessionizeEvents(evs, gap_minutes)
        aggregated == AggregateSessions(sessionized.value)
        sessions == aggregated.value
        users == { sessions[i].user_id : i \in DOMAIN sessions }
        Features(u) ==
            LET mine == SummariesOf(sessions, u)
                sessions_count == Len(mine)
            IN  [sessions |-> sessions_count,
                 avg_session_minutes |->
                    IF sessions_count # 0
                    THEN FracDivInt(SumFracs([i \in 1..Len(mine) |->
                            mine[i].session_duration_minutes]), sessions_count)
                    ELSE FracZero,
                 total_watch_seconds |->
                    SumInts([i \in 1..Len(mine) |-> mine[i].session_watch_seconds]),
                 mean_completion_ratio |->
                    IF sessions_count # 0
                    THEN FracDivInt(SumFracs([i \in 1..Len(mine) |->
                            mine[i].mean_completion_ratio]), sessions_count)
                    ELSE FracZero]
    IN  IF sessionized.raised # "none" THEN sessionized
        ELSE IF sessions = <<>> THEN Ok(EmptyDict)
        ELSE Ok([u \in users |-> Features(u)])

\* UserFeatures.as_vector
AsVector(f) ==
    << FracOfInt(f.sessions), f.avg_session_minutes,
       FracOfInt(f.total_watch_seconds), f.mean_completion_ratio >>

\* int(last_day - first_day >= horizon)
LabelOfStrict(first_day, last_day, horizon_days) ==
    IF last_day - first_day > horizon_days THEN 1 ELSE 0

LabelOf(first_day, last_day, horizon_days) ==
    IF last_day - first_day >= horizon_days THEN 1 ELSE 0

LabelRetentionOfReturning(evs, horizon_days) ==
    LET Days(u) == { DateOf(evs[i].event_time) :
                        i \in { j \in DOMAIN evs : evs[j].user_id = u } }
        users == { u \in { evs[i].user_id : i \in DOMAIN evs } : Cardinality(Days(u)) > 1 }
        Min(S) == CHOOSE x \in S : \A y \in S : x <= y
        Max(S) == CHOOSE x \in S : \A y \in S : y <= x
    IN  IF evs = <<>> THEN Ok(EmptyDict)
        ELSE Ok([u \in users |-> LabelOf(Min(Days(u)), Max(Days(u)), horizon_days)])

\* label_retention(events, horizon_days): user_id -> 0 or 1
LabelRetention(evs, horizon_days) ==
    LET users == { evs[i].user_id : i \in DOMAIN evs }
        Days(u) == { DateOf(evs[i].event_time) :
                        i \in { j \in DOMAIN evs : evs[j].user_id = u } }
        Min(S) == CHOOSE x \in S : \A y \in S : x <= y
        Max(S) == CHOOSE x \in S : \A y \in S : y <= x
    IN  IF evs = <<>> THEN Ok(EmptyDict)
        ELSE Ok([u \in users |-> LabelOf(Min(Days(u)), Max(Days(u)), horizon_days)])

\* sorted(...) of a set of user ids
RECURSIVE SortedUsers(_)
SortedUsers(S) ==
    IF S = {} THEN <<>>
    ELSE LET least == CHOOSE x \in S : \A y \in S \ {x} : StrLess(x, y)
         IN  <<least>> \o SortedUsers(S \ {least})

\* The keys of the watch_days (and labels) dict, in insertion order.
RECURSIVE LabelKeys(_)
LabelKeys(evs) ==
    IF evs = <<>> THEN <<>>
    ELSE LET rest == LabelKeys(SubSeq(evs, 1, Len(evs) - 1))
             id == evs[Len(evs)].user_id
         IN  IF id \in Range(rest) THEN rest ELSE Append(rest, id)

TargetsInLabelOrder(evs, users, labels) ==
    LET keys == LabelKeys(evs) IN [i \in 1..Len(users) |-> labels[keys[i]]]

\* targets = [labels[user] for user in users]
Targets(evs, users, labels) == [i \in 1..Len(users) |-> labels[users[i]]]

FeatureNames ==
    <<"sessions", "avg_session_minutes", "total_watch_seconds", "mean_completion_ratio">>

\* prepare_churn_dataset(events, horizon_days, session_gap_minutes)
PrepareChurnDataset(evs, horizon_days, gap_minutes) ==
    LET user_features == CreateUserFeatures(evs, gap_minutes)
        labels == LabelRetention(evs, horizon_days)
        users == SortedUsers(DOMAIN user_features.value \cap DOMAIN labels.value)
    IN  IF user_features.raised # "none" THEN user_features
        ELSE Ok([users |-> users,
                 features |-> [i \in 1..Len(users) |-> AsVector(user_features.value[users[i]])],
                 feature_names |-> FeatureNames,
                 target |-> Targets(evs, users, labels.value)])

\* Bounds of the explored models: a LogisticRegressionModel the caller holds
\* (weights, bias, means, scales), fitted earlier on whatever data.
ModelChoices ==
    { [weights |-> <<FracZero, FracZero, FracZero, FracZero>>, bias |-> FracZero,
       means |-> <<FracZero, FracZero, FracZero, FracZero>>,
       scales |-> <<FracOne, FracOne, FracOne, FracOne>>],
      [weights |-> <<FracOne, FracZero, <<1, 100>>, <<-2, 1>>>>, bias |-> <<1, 2>>,
       means |-> <<FracOne, FracZero, <<60, 1>>, <<1, 2>>>>,
       scales |-> <<FracOne, FracZero, <<30, 1>>, <<1, 4>>>>],
      [weights |-> <<FracOne, FracZero, FracZero, FracZero>>, bias |-> FracZero,
       means |-> <<<<2, 1>>, FracZero, FracZero, FracZero>>,
       scales |-> <<<<1, 1000>>, FracOne, FracOne, FracOne>>] }

\* ChurnDataset.is_empty
IsEmpty(dataset) == dataset.features = <<>> \/ dataset.target = <<>>

\* _column_means(matrix)
ColumnMeans(matrix) ==
    [column \in 1..Len(matrix[1]) |->
        FracDivInt(SumFracs([row \in 1..Len(matrix) |-> matrix[row][column]]), Len(matrix))]

\* The model a fit returns: the standardisation means and one weight per
\* feature name.  The floating-point values of weights, bias and scales
\* (square roots, exp) are not represented.
Fitted(dataset) ==
    [means |-> ColumnMeans(dataset.features), weights |-> Len(dataset.feature_names)]

TrainChurnModelUnguarded(dataset) ==
    IF dataset.features = <<>> THEN Raise("IndexError") ELSE Ok(Fitted(dataset))

\* train_churn_model(dataset)
TrainChurnModel(dataset) ==
    IF IsEmpty(dataset) THEN Raise("ValueError") ELSE Ok(Fitted(dataset))

\* LogisticRegressionModel._scale(vector): zip stops at the shortest.
Scale(model, vector) ==
    [i \in 1..Len(vector) |->
        IF model.scales[i] = FracZero THEN FracZero
        ELSE FracDiv(FracSub(vector[i], model.means[i]), model.scales[i])]

\* sum(weight * value for weight, value in zip(self.weights, scaled)) + self.bias
Score(model, vector) ==
    LET scaled == Scale(model, vector)
    IN  FracAdd(SumFracs([i \in 1..Len(scaled) |-> FracMul(model.weights[i], scaled[i])]),
                model.bias)

\* math.exp on a double: above ln(DBL_MAX) = 709.78... it raises
\* OverflowError("math range error"); below ln of the least subnormal it
\* returns 0.0.
ExpMaxArg == <<70978, 100>>
ExpMinArg == <<-746, 1>>
ExpOverflows(x) == FracLess(ExpMaxArg, x)

\* The value of exp(x) within the double range.  exp is not rational; it is
\* stood for by the rational function 1 + x for x >= 0 and 1 / (1 - x) for
\* x < 0, which is positive, increasing, 1 at 0 and has exp's reciprocal
\* law E(-x) = 1 / E(x).
ExpValue(x) ==
    IF FracLess(x, ExpMinArg) THEN FracZero
    ELSE IF FracLess(x, FracZero) THEN FracDiv(FracOne, FracSub(FracOne, x))
    ELSE FracAdd(FracOne, x)

\* 1.0 / (1.0 + exp(-score))
Sigmoid(score) ==
    IF ExpOverflows(FracNeg(score)) THEN Raise("OverflowError")
    ELSE Ok(FracDiv(FracOne, FracAdd(FracOne, ExpValue(FracNeg(score)))))

\* LogisticRegressionModel.predict_probability(vector)
PredictProbability(model, vector) == Sigmoid(Score(model, vector))

\* LogisticRegressionModel.predict_proba(vectors): the first exception ends it.
PredictProba(model, vectors) ==
    LET each == [i \in 1..Len(vectors) |-> PredictProbability(model, vectors[i])]
    IN  IF \E i \in DOMAIN each : each[i].raised # "none"
        THEN each[CHOOSE i \in DOMAIN each :
                    /\ each[i].raised # "none"
                    /\ \A j \in 1..(i - 1) : each[j].raised = "none"]
        ELSE Ok([i \in 1..Len(vectors) |-> each[i].value])

\* predict_retention(model, dataset)
PredictRetention(model, dataset) ==
    IF IsEmpty(dataset) THEN Ok(<<>>)
    ELSE LET probabilities == PredictProba(model, dataset.features)
             n == IF Len(dataset.users) < Len(probabilities.value)
                  THEN Len(dataset.users) ELSE Len(probabilities.value)
         IN  IF probabilities.raised # "none" THEN probabilities
             ELSE Ok([i \in 1..n |->
                        [user_id |-> dataset.users[i],
                         retention_probability |-> probabilities.value[i]]])

---------------------------------------------------------------------------
(* The calls.                                                              *)

Init ==
    /\ events \in EventSeqs
    /\ call = "none"
    /\ input = <<>>
    /\ gap = DefaultGap
    /\ horizon = DefaultHorizon
    /\ thresholds_given = DefaultThresholds
    /\ days_given = DefaultDays
    /\ ret = Ok(<<>>)
    /\ frames = <<>>

CallSessionizeEvents ==
    /\ call = "none"
    /\ \E g \in GapValues :
        /\ gap' = g
        /\ ret' = SessionizeEvents(events, g)
    /\ call' = "sessionize_events"
    /\ input' = events
    /\ UNCHANGED <<frames, events, horizon, thresholds_given, days_given>>

Reverse(s) == [i \in 1..Len(s) |-> s[Len(s) + 1 - i]]

\* The caller hands the sessionized records on, as returned or reordered.
CallAggregateSessions ==
    /\ call = "sessionize_events"
    /\ ret.raised = "none"
    /\ \E given \in {ret.value, Reverse(ret.value)} :
        /\ input' = given
        /\ ret' = AggregateSessions(given)
    /\ call' = "aggregate_sessions"
    /\ UNCHANGED <<frames, events, gap, horizon, thresholds_given, days_given>>

\* The caller sessionizes its events in two batches, the first k and the
\* rest, and hands the records of both calls to aggregate_sessions.
CallAggregateSessionsOfBatches ==
    /\ call = "none"
    /\ \E k \in 0..Len(events) :
        LET first == SessionizeEvents(SubSeq(events, 1, k), DefaultGap)
            rest == SessionizeEvents(SubSeq(events, k + 1, Len(events)), DefaultGap)
        IN  /\ first.raised = "none" /\ rest.raised = "none"
            /\ input' = first.value \o rest.value
            /\ ret' = AggregateSessions(first.value \o rest.value)
    /\ call' = "aggregate_sessions"
    /\ UNCHANGED <<frames, events, gap, horizon, thresholds_given, days_given>>

CallAverageSessionDuration ==
    /\ call = "aggregate_sessions"
    /\ ret.raised = "none"
    /\ call' = "average_session_duration"
    /\ input' = ret.value
    /\ ret' = AverageSessionDuration(ret.value)
    /\ UNCHANGED <<frames, events, gap, horizon, thresholds_given, days_given>>

CallCompletionRate ==
    /\ call = "none"
    /\ call' = "completion_rate"
    /\ input' = events
    /\ ret' = CompletionRate(events)
    /\ UNCHANGED <<frames, events, gap, horizon, thresholds_given, days_given>>

CallDropOffPositions ==
    /\ call = "none"
    /\ \E ths \in ThresholdChoices :
        /\ thresholds_given' = ths
        /\ ret' = DropOffPositions(events, ths)
    /\ call' = "drop_off_positions"
    /\ input' = events
    /\ UNCHANGED <<frames, events, gap, horizon, days_given>>

CallDauWauRatio ==
    /\ call = "none"
    /\ call' = "dau_wau_ratio"
    /\ input' = events
    /\ ret' = DauWauRatio(events)
    /\ UNCHANGED <<frames, events, gap, horizon, thresholds_given, days_given>>

CallDailyActiveUsers ==
    /\ call = "none"
    /\ call' = "daily_active_users"
    /\ input' = events
    /\ ret' = DailyActiveUsers(events)
    /\ UNCHANGED <<frames, events, gap, horizon, thresholds_given, days_given>>

CallCreatorWatchShare ==
    /\ call = "none"
    /\ call' = "creator_watch_share"
    /\ input' = events
    /\ ret' = CreatorWatchShare(events)
    /\ UNCHANGED <<frames, events, gap, horizon, thresholds_given, days_given>>

CallRetentionCurve ==
    /\ call = "none"
    /\ \E ds \in DayChoices :
        /\ days_given' = ds
        /\ ret' = RetentionCurve(events, ds)
    /\ call' = "retention_curve"
    /\ input' = events
    /\ UNCHANGED <<frames, events, gap, horizon, thresholds_given>>

CallLabelRetention ==
    /\ call = "none"
    /\ \E h \in HorizonValues :
        /\ horizon' = h
        /\ ret' = LabelRetention(events, h)
    /\ call' = "label_retention"
    /\ input' = events
    /\ UNCHANGED <<frames, events, gap, thresholds_given, days_given>>

CallPrepareChurnDataset ==
    /\ call = "none"
    /\ \E h \in HorizonValues :
        /\ horizon' = h
        /\ gap' = DefaultGap
        /\ ret' = PrepareChurnDataset(events, h, DefaultGap)
    /\ call' = "prepare_churn_dataset"
    /\ input' = events
    /\ UNCHANGED <<frames, events, thresholds_given, days_given>>

CallTrainChurnModel ==
    /\ call = "prepare_churn_dataset"
    /\ ret.raised = "none"
    /\ call' = "train_churn_model"
    /\ input' = ret.value
    /\ ret' = TrainChurnModel(ret.value)
    /\ UNCHANGED <<frames, events, gap, horizon, thresholds_given, days_given>>

\* The caller scores the prepared dataset with a model it holds.
CallPredictRetention ==
    /\ call = "prepare_churn_dataset"
    /\ ret.raised = "none"
    /\ \E model \in ModelChoices :
        /\ input' = [model |-> model, dataset |-> ret.value]
        /\ ret' = PredictRetention(model, ret.value)
    /\ call' = "predict_retention"
    /\ UNCHANGED <<frames, events, gap, horizon, thresholds_given, days_given>>

CallCreatorContribution ==
    /\ call = "none"
    /\ \E top_n \in TopNChoices :
        /\ input' = [events |-> events, top_n |-> top_n]
        /\ ret' = CreatorContribution(events, top_n)
    /\ call' = "creator_contribution"
    /\ UNCHANGED <<frames, events, gap, horizon, thresholds_given, days_given>>

Next ==
    \/ CallSessionizeEvents
    \/ CallAggregateSessions
    \/ CallAverageSessionDuration
    \/ CallCompletionRate
    \/ CallDropOffPositions
    \/ CallDauWauRatio
    \/ CallDailyActiveUsers
    \/ CallCreatorWatchShare
    \/ CallRetentionCurve
    \/ CallLabelRetention
    \/ CallPrepareChurnDataset
    \/ CallTrainChurnModel

Spec == Init /\ [][Next]_vars

\* Scoring a prepared dataset.
ScoringNext ==
    \/ CallPrepareChurnDataset
    \/ CallPredictRetention

ScoringSpec == Init /\ [][ScoringNext]_vars

---------------------------------------------------------------------------
(* Concurrent calls, one step of a call at a time.                         *)

FrameOfShared(t) == 1

\* The frame holding a call's local variables: every call of
\* sessionize_events and aggregate_sessions creates its own lists and
\* dictionaries; the module holds none.
FrameOf(t) == t

\* Another thread is in the middle of a call.
Overlap(t) == \E o \in Threads \ {t} : frames[o].pc \notin {"call", "done"}

\* A call about to start; its locals are not yet bound.
NewFrame(fn, arg) ==
    [fn |-> fn, arg |-> arg, pc |-> "call", result |-> Ok(<<>>),
     overlapped |-> FALSE,
     locals |-> [sorted_events |-> <<>>, st |-> SessionizeInitial,
                 keys |-> <<>>, grouped |-> <<>>]]

\* sessionize_events up to the loop: normalize, return [] or sort and
\* create the dictionaries.
SessionizeStart(t) ==
    /\ frames[t].fn = "sessionize_events" /\ frames[t].pc = "call"
    /\ LET normalized == EnsureWatchEvents(frames[t].arg)
       IN  frames' =
            IF normalized = <<>>
            THEN [frames EXCEPT ![t].pc = "done", ![t].result = Ok(<<>>),
                                ![t].overlapped = @ \/ Overlap(t)]
            ELSE [frames EXCEPT ![t].pc = "loop",
                                ![t].overlapped = @ \/ Overlap(t),
                                ![FrameOf(t)].locals.sorted_events = SortEvents(normalized),
                                ![FrameOf(t)].locals.st = SessionizeInitial]
    /\ UNCHANGED <<events, call, input, gap, horizon, thresholds_given, days_given, ret>>

\* One iteration of the loop over sorted_events.
SessionizeIterate(t) ==
    /\ frames[t].fn = "sessionize_events" /\ frames[t].pc = "loop"
    /\ frames[FrameOf(t)].locals.sorted_events # <<>>
    /\ frames' =
        [frames EXCEPT ![t].overlapped = @ \/ Overlap(t),
                       ![FrameOf(t)].locals.sorted_events = Tail(@),
                       ![FrameOf(t)].locals.st =
                            SessionizeStep(@, Head(frames[FrameOf(t)].locals.sorted_events),
                                           gap)]
    /\ UNCHANGED <<events, call, input, gap, horizon, thresholds_given, days_given, ret>>

\* return enriched
SessionizeReturn(t) ==
    /\ frames[t].fn = "sessionize_events" /\ frames[t].pc = "loop"
    /\ frames[FrameOf(t)].locals.sorted_events = <<>>
    /\ frames' =
        [frames EXCEPT ![t].pc = "done", ![t].overlapped = @ \/ Overlap(t),
                       ![t].result = Ok(frames[FrameOf(t)].locals.st.enriched)]
    /\ UNCHANGED <<events, call, input, gap, horizon, thresholds_given, days_given, ret>>

\* aggregate_sessions up to the loop over the groups: return [] or build
\* the sessions dict.
AggregateStart(t) ==
    /\ frames[t].fn = "aggregate_sessions" /\ frames[t].pc = "call"
    /\ frames' =
        IF frames[t].arg = <<>>
        THEN [frames EXCEPT ![t].pc = "done", ![t].result = Ok(<<>>),
                            ![t].overlapped = @ \/ Overlap(t)]
        ELSE [frames EXCEPT ![t].pc = "summarize",
                            ![t].overlapped = @ \/ Overlap(t),
                            ![FrameOf(t)].locals.keys = SessionKeys(frames[t].arg),
                            ![FrameOf(t)].locals.grouped = frames[t].arg]
    /\ UNCHANGED <<events, call, input, gap, horizon, thresholds_given, days_given, ret>>

\* The loop over the groups, the sort and the return.
AggregateSummarize(t) ==
    /\ frames[t].fn = "aggregate_sessions" /\ frames[t].pc = "summarize"
    /\ LET mine == frames[FrameOf(t)].locals
       IN  frames' =
            [frames EXCEPT ![t].pc = "done", ![t].overlapped = @ \/ Overlap(t),
                           ![t].result =
                                Ok(SortSummaries(
                                    [k \in 1..Len(mine.keys) |->
                                        Summarize(mine.keys[k],
                                                  SessionMembers(mine.grouped, mine.keys[k]))]))]
    /\ UNCHANGED <<events, call, input, gap, horizon, thresholds_given, days_given, ret>>

\* Two threads, each about to call sessionize_events or aggregate_sessions
\* on a sequence of its own; input keeps what each caller passed.
ConcurrentInit ==
    /\ events = <<>>
    /\ call = "none"
    /\ gap = DefaultGap
    /\ horizon = DefaultHorizon
    /\ thresholds_given = DefaultThresholds
    /\ days_given = DefaultDays
    /\ ret = Ok(<<>>)
    /\ \E first, second \in ThreadEventSeqs :
        \E fn \in {"sessionize_events", "aggregate_sessions"} :
            LET arg == IF fn = "sessionize_events" THEN second
                       ELSE SessionizeEvents(second, DefaultGap).value
            IN  /\ input = <<first, arg>>
                /\ frames = << NewFrame("sessionize_events", first), NewFrame(fn, arg) >>

ConcurrentNext ==
    \E t \in Threads :
        \/ SessionizeStart(t)
        \/ SessionizeIterate(t)
        \/ SessionizeReturn(t)
        \/ AggregateStart(t)
        \/ AggregateSummarize(t)

ConcurrentSpec == ConcurrentInit /\ [][ConcurrentNext]_vars

\* Aggregating the records of separately sessionized batches.
BatchNext ==
    \/ CallAggregateSessionsOfBatches
    \/ CallAverageSessionDuration

BatchSpec == Init /\ [][BatchNext]_vars

\* The creator functions over events that differ in creator and watch time.
CreatorInit ==
    /\ events \in CreatorEventSeqs
    /\ call = "none"
    /\ input = <<>>
    /\ gap = DefaultGap
    /\ horizon = DefaultHorizon
    /\ thresholds_given = DefaultThresholds
    /\ days_given = DefaultDays
    /\ ret = Ok(<<>>)
    /\ frames = <<>>

CreatorNext ==
    \/ CallCreatorWatchShare
    \/ CallCreatorContribution

CreatorSpec == CreatorInit /\ [][CreatorNext]_vars

\* The calendar-day functions over events spread across nine days.
WeekInit ==
    /\ events \in WeekEventSeqs
    /\ call = "none"
    /\ input = <<>>
    /\ gap = DefaultGap
    /\ horizon = DefaultHorizon
    /\ thresholds_given = DefaultThresholds
    /\ days_given = DefaultDays
    /\ ret = Ok(<<>>)
    /\ frames = <<>>

WeekNext ==
    \/ CallSessionizeEvents
    \/ CallDauWauRatio
    \/ CallDailyActiveUsers
    \/ CallRetentionCurve

WeekSpec == WeekInit /\ [][WeekNext]_vars

\* Records on their way into the core: rows through the loader, mappings
\* through sessionize_events, and the loaded events through the functions
\* that compute watched_seconds / video_duration.
IntakeInit ==
    /\ events \in IntakeSeqs
    /\ call = "none"
    /\ input = <<>>
    /\ gap = DefaultGap
    /\ horizon = DefaultHorizon
    /\ thresholds_given = DefaultThresholds
    /\ days_given = DefaultDays
    /\ ret = Ok(<<>>)
    /\ frames = <<>>

CallLoadWatchEvents ==
    /\ call = "none"
    /\ call' = "load_watch_events"
    /\ input' = events
    /\ ret' = LoadWatchEvents(events)
    /\ UNCHANGED <<frames, events, gap, horizon, thresholds_given, days_given>>

CallSessionizeMappings ==
    /\ call = "none"
    /\ \E g \in GapValues :
        /\ gap' = g
        /\ ret' = SessionizeMappings(events, g)
    /\ call' = "sessionize_events"
    /\ input' = events
    /\ UNCHANGED <<frames, events, horizon, thresholds_given, days_given>>

Loaded == call = "load_watch_events" /\ ret.raised = "none"

CallSessionizeLoaded ==
    /\ Loaded
    /\ \E g \in GapValues :
        /\ gap' = g
        /\ ret' = SessionizeEvents(ret.value, g)
    /\ call' = "sessionize_events"
    /\ input' = ret.value
    /\ UNCHANGED <<frames, events, horizon, thresholds_given, days_given>>

CallCompletionRateLoaded ==
    /\ Loaded
    /\ call' = "completion_rate"
    /\ input' = ret.value
    /\ ret' = CompletionRate(ret.value)
    /\ UNCHANGED <<frames, events, gap, horizon, thresholds_given, days_given>>

CallDropOffPositionsLoaded ==
    /\ Loaded
    /\ \E ths \in ThresholdChoices :
        /\ thresholds_given' = ths
        /\ ret' = DropOffPositions(ret.value, ths)
    /\ call' = "drop_off_positions"
    /\ input' = ret.value
    /\ UNCHANGED <<frames, events, gap, horizon, days_given>>

IntakeNext ==
    \/ CallLoadWatchEvents
    \/ CallSessionizeMappings
    \/ CallSessionizeLoaded
    \/ CallCompletionRateLoaded
    \/ CallDropOffPositionsLoaded

IntakeSpec == IntakeInit /\ [][IntakeNext]_vars

\* Building the user features and reading one of them as a vector.
CallCreateUserFeatures ==
    /\ call = "none"
    /\ \E g \in GapValues :
        /\ gap' = g
        /\ ret' = CreateUserFeatures(events, g)
    /\ call' = "create_user_features"
    /\ input' = events
    /\ UNCHANGED <<frames, events, horizon, thresholds_given, days_given>>

CallAsVector ==
    /\ call = "create_user_features"
    /\ ret.raised = "none"
    /\ \E u \in DOMAIN ret.value :
        /\ input' = ret.value[u]
        /\ ret' = Ok(AsVector(ret.value[u]))
    /\ call' = "as_vector"
    /\ UNCHANGED <<frames, events, gap, horizon, thresholds_given, days_given>>

FeaturesNext ==
    \/ CallCreateUserFeatures
    \/ CallAsVector

FeaturesSpec == Init /\ [][FeaturesNext]_vars

---------------------------------------------------------------------------
(* Properties of sessionize_events.                                        *)

SeqToBag(s) == [x \in Range(s) |-> Cardinality({i \in DOMAIN s : s[i] = x})]

Orderings(s) ==
    { [i \in 1..Len(s) |-> s[f[i]]] : f \in Permutations(1..Len(s)) }

Sessionized == call = "sessionize_events" /\ ret.raised = "none"

\* The output records of one user, in output order.
OfUser(out, u) == LET Mine(r) == r.user_id = u IN SelectSeq(out, Mine)

\* The WatchEvent an enriched record was built from.
AsWatchEvent(r) ==
    WatchEvent(r.user_id, r.video_id, r.creator_id, r.event_time,
               r.watched_seconds, r.video_duration)

\* What sessionization assigns to an event.
Assignment(r) ==
    [event |-> AsWatchEvent(r), session_id |-> r.session_id,
     session_start |-> r.session_start]

\* C1: walking one user's events in ascending event_time, an event opens a
\* session (its session_id was not seen on an earlier event of the user)
\* if and only if it is the user's first event or it lies strictly more
\* than gap after the user's previous event; a distance of exactly gap
\* keeps the session.
C1_GapRule ==
    Sessionized =>
        \A u \in UserIds :
            LET s == OfUser(ret.value, u)
            IN  \A k \in 1..Len(s) :
                    LET opens == \A j \in 1..(k - 1) : s[j].session_id # s[k].session_id
                    IN  /\ k > 1 => s[k - 1].event_time <= s[k].event_time
                        /\ opens <=> (k = 1 \/ s[k].event_time - s[k - 1].event_time > gap)

\* One user with events exactly gap apart sharing a session and a third
\* event further away in another session.
C1_Witness ==
    /\ Sessionized /\ gap = 30
    /\ \E i, j, k \in DOMAIN ret.value :
        /\ ret.value[i].user_id = ret.value[j].user_id
        /\ ret.value[j].user_id = ret.value[k].user_id
        /\ ret.value[j].event_time - ret.value[i].event_time = gap
        /\ ret.value[i].session_id = ret.value[j].session_id
        /\ ret.value[k].event_time - ret.value[j].event_time > gap
        /\ ret.value[k].session_id # ret.value[j].session_id

\* C2: for a gap >= 0 every ordering of the same input events is given the
\* same session_id and session_start per event.  Every ordering of a
\* collection is itself an input the specification starts from, so each is
\* compared with one reference ordering of its collection (the same for
\* all of them), which compares every two.
C2_OrderIndependent ==
    (Sessionized /\ gap >= 0) =>
        LET reference == CHOOSE p \in Orderings(input) : TRUE
            other == SessionizeEvents(reference, gap)
        IN  /\ other.raised = "none"
            /\ SeqToBag([i \in DOMAIN other.value |-> Assignment(other.value[i])])
               = SeqToBag([i \in DOMAIN ret.value |-> Assignment(ret.value[i])])

\* An input that is not in sorted order and holds two different events of
\* one user at the same instant.
C2_Witness ==
    /\ Sessionized /\ gap >= 0
    /\ input # SortEvents(input)
    /\ \E i, j \in DOMAIN input :
        /\ input[i] # input[j]
        /\ input[i].user_id = input[j].user_id
        /\ input[i].event_time = input[j].event_time

\* C3: the output enriches every input event exactly once: as many records
\* as events, and the records' WatchEvent fields are the input events,
\* each as often as it was given.
C3_CompleteEnrichment ==
    Sessionized =>
        /\ Len(ret.value) = Len(input)
        /\ SeqToBag([i \in DOMAIN ret.value |-> AsWatchEvent(ret.value[i])])
           = SeqToBag(input)

\* An input holding the same event twice, and another event.
C3_Witness ==
    /\ Sessionized /\ Len(input) = 3
    /\ \E i, j, k \in DOMAIN input :
        i # j /\ input[i] = input[j] /\ input[k] # input[i]

\* The ordinal n with session_id = "{user_id}-{n}", 0 when there is none.
OrdinalOf(r) ==
    IF \E n \in 1..Len(ret.value) : r.session_id = r.user_id \o "-" \o ToString(n)
    THEN CHOOSE n \in 1..Len(ret.value) : r.session_id = r.user_id \o "-" \o ToString(n)
    ELSE 0

\* A user's ordinals are exactly 1..k, every session_id reads
\* "{user_id}-{ordinal}", and no session_id names two (user, ordinal) pairs.
OrdinalsDenseAndUnique(out) ==
    /\ \A i \in DOMAIN out : OrdinalOf(out[i]) >= 1
    /\ \A u \in UserIds :
            LET used == { OrdinalOf(out[i]) : i \in { j \in DOMAIN out : out[j].user_id = u } }
            IN  used = 1..Cardinality(used)
    /\ \A i, j \in DOMAIN out :
            out[i].session_id = out[j].session_id
                => (out[i].user_id = out[j].user_id /\ OrdinalOf(out[i]) = OrdinalOf(out[j]))

\* C4 as stated: every session_id reads "{user_id}-{ordinal}"; a user's
\* ordinals are exactly 1..k; a lower ordinal's events are all earlier than
\* a higher ordinal's; and one session_id never names two (user, ordinal)
\* pairs.
C4_SessionIds ==
    Sessionized =>
        /\ OrdinalsDenseAndUnique(ret.value)
        /\ \A i, j \in DOMAIN ret.value :
                (/\ ret.value[i].user_id = ret.value[j].user_id
                 /\ OrdinalOf(ret.value[i]) < OrdinalOf(ret.value[j]))
                    => ret.value[i].event_time < ret.value[j].event_time

\* C4 as amended: as above, but a lower ordinal's events are never later
\* than a higher ordinal's, and all earlier when the gap is not negative.
C4_SessionIdsInTimeOrder ==
    Sessionized =>
        /\ OrdinalsDenseAndUnique(ret.value)
        /\ \A i, j \in DOMAIN ret.value :
                (/\ ret.value[i].user_id = ret.value[j].user_id
                 /\ OrdinalOf(ret.value[i]) < OrdinalOf(ret.value[j]))
                    => /\ ret.value[i].event_time <= ret.value[j].event_time
                       /\ gap >= 0 => ret.value[i].event_time < ret.value[j].event_time

\* Both users present, one of them with two sessions.
C4_Witness ==
    /\ Sessionized
    /\ \E i, j, k \in DOMAIN ret.value :
        /\ ret.value[i].session_id = "u1-1"
        /\ ret.value[j].session_id = "u1-1-1"
        /\ ret.value[k].session_id = "u1-1-2"

---------------------------------------------------------------------------
(* Properties of aggregate_sessions and of the completion ratio.           *)

Aggregated == call = "aggregate_sessions" /\ ret.raised = "none"

\* C5: aggregate_sessions returns exactly one summary per distinct
\* session_id of its input, in ascending (user_id, session_start) order.
C5_OneSummaryPerSessionSorted ==
    Aggregated =>
        LET ids == { input[i].session_id : i \in DOMAIN input }
        IN  /\ { ret.value[i].session_id : i \in DOMAIN ret.value } = ids
            /\ Len(ret.value) = Cardinality(ids)
            /\ \A i, j \in DOMAIN ret.value :
                    i < j => ~SummaryKeyLess(ret.value[j], ret.value[i])

\* Three sessions of two users, handed over in descending order.
C5_Witness ==
    /\ Aggregated
    /\ Len(ret.value) = 3
    /\ ret.value[1].user_id # ret.value[3].user_id
    /\ SummaryKeyLess(input[3], input[1])

\* C6: the completion ratio sessionize_events computes for an event is
\* min(watched_seconds / video_duration, 1), within [0,1] also when more
\* was watched than the video lasts; and completion_rate lies in [0,1].
C6_CompletionClamped ==
    /\ Sessionized =>
            \A i \in DOMAIN ret.value :
                LET r == ret.value[i]
                    c == r.completion_ratio
                IN  /\ FracLeq(FracZero, c) /\ FracLeq(c, FracOne)
                    /\ IF r.watched_seconds >= r.video_duration
                       THEN c[1] = c[2]
                       ELSE c[1] * r.video_duration = r.watched_seconds * c[2]
    /\ call = "completion_rate" =>
            /\ ret.raised = "none"
            /\ FracLeq(FracZero, ret.value) /\ FracLeq(ret.value, FracOne)

\* A sessionized input with an event watched beyond the video's end and
\* one watched in part.
C6_Witness ==
    /\ Sessionized
    /\ \E i, j \in DOMAIN ret.value :
        /\ ret.value[i].watched_seconds > ret.value[i].video_duration
        /\ ret.value[i].completion_ratio = FracOne
        /\ ret.value[j].watched_seconds < ret.value[j].video_duration
        /\ ret.value[j].completion_ratio = <<1, 2>>

---------------------------------------------------------------------------
(* Empty input, and the churn dataset.                                     *)

\* C7: empty input is never an error: on an empty sequence each function
\* returns its empty or zero result and raises nothing.
C7_EmptyInputNeverAnError ==
    (/\ call \in {"sessionize_events", "aggregate_sessions", "completion_rate",
                  "drop_off_positions", "average_session_duration", "dau_wau_ratio",
                  "creator_watch_share", "daily_active_users", "retention_curve"}
     /\ input = <<>>) =>
        /\ ret.raised = "none"
        /\ call \in {"sessionize_events", "aggregate_sessions", "creator_watch_share",
                     "daily_active_users"} => ret.value = <<>>
        /\ call \in {"completion_rate", "average_session_duration"} => ret.value = <<0, 1>>
        /\ call = "drop_off_positions" =>
                /\ DOMAIN ret.value =
                       { "below_" \o ToString((thresholds_given[k][1] * 100)
                                              \div thresholds_given[k][2]) :
                           k \in DOMAIN thresholds_given }
                /\ \A key \in DOMAIN ret.value : ret.value[key] = <<0, 1>>
        /\ call = "dau_wau_ratio" =>
                ret.value = [dau |-> <<0, 1>>, wau |-> <<0, 1>>, ratio |-> <<0, 1>>]
        /\ call = "retention_curve" =>
                /\ Len(ret.value) = Len(days_given)
                /\ \A k \in DOMAIN days_given :
                       ret.value[k] = [day |-> days_given[k], retention_rate |-> <<0, 1>>]

\* retention_curve called on no events with the three default offsets.
C7_Witness ==
    /\ call = "retention_curve"
    /\ input = <<>>
    /\ Len(ret.value) = 3

TrainedOnNoRows == call = "train_churn_model" /\ Len(input.users) = 0

C9_DatasetAligned ==
    (call = "prepare_churn_dataset" /\ ret.raised = "none") =>
        LET dataset == ret.value
            user_features == CreateUserFeatures(input, gap).value
            labels == LabelRetention(input, horizon).value
        IN  /\ Len(dataset.features) = Len(dataset.users)
            /\ Len(dataset.target) = Len(dataset.users)
            /\ \A i, j \in DOMAIN dataset.users :
                    i < j => StrLess(dataset.users[i], dataset.users[j])
            /\ Range(dataset.users) = DOMAIN user_features \cap DOMAIN labels
            /\ \A i \in DOMAIN dataset.users :
                    /\ dataset.features[i] = AsVector(user_features[dataset.users[i]])
                    /\ dataset.target[i] = labels[dataset.users[i]]

\* Two users with different labels, the later one in id order seen first.
C9_Witness ==
    /\ call = "prepare_churn_dataset" /\ ret.raised = "none"
    /\ Len(ret.value.users) = 2
    /\ ret.value.target[1] # ret.value.target[2]
    /\ input[1].user_id = ret.value.users[2]

\* C10: every user with an event is labelled 0 or 1, and 1 exactly when
\* two of the user's events lie on calendar days at least horizon_days
\* apart (the last active day minus the first is >= horizon_days).
C10_LabelRule ==
    (call = "label_retention" /\ ret.raised = "none") =>
        \A i \in DOMAIN input :
            LET u == input[i].user_id
                mine == { j \in DOMAIN input : input[j].user_id = u }
            IN  /\ u \in DOMAIN ret.value
                /\ ret.value[u] \in {0, 1}
                /\ ret.value[u] = 1 <=>
                       \E a, b \in mine :
                           (input[b].event_time \div DayMinutes) - (input[a].event_time \div DayMinutes)
                               >= horizon

\* A user labelled 1 whose active days are exactly horizon_days apart, and
\* a user labelled 0.
C10_Witness ==
    /\ call = "label_retention" /\ ret.raised = "none"
    /\ horizon = 1
    /\ \E u, v \in DOMAIN ret.value : ret.value[u] = 1 /\ ret.value[v] = 0

---------------------------------------------------------------------------
(* Users active on a single calendar day.                                  *)

Labelled == call = "label_retention" /\ ret.raised = "none"

\* The users of the input whose events all fall on one calendar day.
SingleDayUsers ==
    { u \in { input[i].user_id : i \in DOMAIN input } :
        \A a, b \in { j \in DOMAIN input : input[j].user_id = u } :
            input[a].event_time \div DayMinutes = input[b].event_time \div DayMinutes }

\* C11 as stated: a user whose events all fall on a single calendar day is
\* labelled 1 when horizon_days is 0 and 0 for every other horizon_days.
C11_SingleDayLabelZeroUnlessHorizonZero ==
    Labelled =>
        \A u \in SingleDayUsers : ret.value[u] = (IF horizon = 0 THEN 1 ELSE 0)

\* C11 as amended: such a user is labelled 0 for every horizon_days > 0 and
\* 1 for every horizon_days <= 0.
C11_SingleDayLabelZeroForPositiveHorizon ==
    Labelled =>
        \A u \in SingleDayUsers : ret.value[u] = (IF horizon <= 0 THEN 1 ELSE 0)

\* A positive horizon and a user with events at two times of one day.
C11_Witness ==
    /\ Labelled /\ horizon = 1
    /\ \E u \in SingleDayUsers :
        /\ ret.value[u] = 0
        /\ \E a, b \in DOMAIN input :
            /\ input[a].user_id = u /\ input[b].user_id = u
            /\ input[a].event_time # input[b].event_time

---------------------------------------------------------------------------
(* Scoring.                                                                *)

Scored == call = "predict_retention"

\* C12 as stated: predict_retention returns one prediction per row of the
\* dataset, the i-th carrying users[i], every retention_probability within
\* [0,1], and an empty result for an empty dataset; it raises nothing.
C12_OnePredictionPerRow ==
    Scored =>
        /\ ret.raised = "none"
        /\ Len(ret.value) = Len(input.dataset.features)
        /\ \A i \in DOMAIN ret.value :
                /\ ret.value[i].user_id = input.dataset.users[i]
                /\ FracLeq(FracZero, ret.value[i].retention_probability)
                /\ FracLeq(ret.value[i].retention_probability, FracOne)

\* C12 as the code has it: predict_retention raises OverflowError exactly
\* when some row's score lies below -709.78, the range of exp, and
\* otherwise returns one prediction per row, in users order, within [0,1].
C12_OnePredictionPerRowUnlessExpOverflows ==
    Scored =>
        LET rows == input.dataset.features
            overflowing ==
                \E i \in DOMAIN rows :
                    FracLess(Score(input.model, rows[i]), <<-70978, 100>>)
        IN  IF overflowing THEN ret = Raise("OverflowError")
            ELSE /\ ret.raised = "none"
                 /\ Len(ret.value) = Len(rows)
                 /\ \A i \in DOMAIN ret.value :
                        /\ ret.value[i].user_id = input.dataset.users[i]
                        /\ FracLeq(FracZero, ret.value[i].retention_probability)
                        /\ FracLeq(ret.value[i].retention_probability, FracOne)

\* A dataset of two users scored by a model under which one row's score is
\* far below the range of exp.
C12_Witness ==
    /\ Scored
    /\ Len(input.dataset.users) = 2
    /\ ret.raised = "OverflowError"
    /\ \E i, j \in DOMAIN input.dataset.features :
        /\ FracLess(Score(input.model, input.dataset.features[i]), <<-70978, 100>>)
        /\ Score(input.model, input.dataset.features[j]) = FracZero

---------------------------------------------------------------------------
(* Daily and weekly active users.                                          *)

\* The calendar days of the input's events, and its users active on a day
\* within [from, to].
InputDays == { input[i].event_time \div DayMinutes : i \in DOMAIN input }

ActiveWithin(from, to) ==
    { input[i].user_id :
        i \in { j \in DOMAIN input :
                /\ from <= input[j].event_time \div DayMinutes
                /\ input[j].event_time \div DayMinutes <= to } }

\* C13: dau is the number of distinct users active on the latest calendar
\* day present, wau the number active within [latest_day - 6, latest_day];
\* dau <= wau; ratio is dau / wau within [0,1], and 0 when wau is 0 (which
\* only an empty sequence gives).
C13_DauWau ==
    call = "dau_wau_ratio" =>
        /\ ret.raised = "none"
        /\ IF input = <<>>
           THEN ret.value = [dau |-> <<0, 1>>, wau |-> <<0, 1>>, ratio |-> <<0, 1>>]
           ELSE LET latest == CHOOSE d \in InputDays : \A x \in InputDays : x <= d
                    dau == Cardinality(ActiveWithin(latest, latest))
                    wau == Cardinality(ActiveWithin(latest - 6, latest))
                IN  /\ ret.value.dau = <<dau, 1>>
                    /\ ret.value.wau = <<wau, 1>>
                    /\ dau <= wau /\ wau > 0
                    /\ ret.value.ratio[1] * wau = dau * ret.value.ratio[2]
                    /\ 0 <= ret.value.ratio[1] /\ ret.value.ratio[1] <= ret.value.ratio[2]

\* One user active on the latest day, another only six days before it, and
\* an event seven days before it that the window leaves out.
C13_Witness ==
    /\ call = "dau_wau_ratio"
    /\ ret.value.dau = <<1, 1>> /\ ret.value.wau = <<2, 1>>
    /\ \E i, j \in DOMAIN input :
        /\ input[i].event_time \div DayMinutes = 0
        /\ input[j].event_time \div DayMinutes = 1
        /\ input[i].user_id # input[j].user_id
    /\ \A i \in DOMAIN input : input[i].event_time \div DayMinutes <= 7
    /\ \E i \in DOMAIN input : input[i].event_time \div DayMinutes = 7

---------------------------------------------------------------------------
(* Creator watch share.                                                    *)

Shared == call = "creator_watch_share" /\ ret.raised = "none"

\* The watched_seconds of the events of one creator, summed.
WatchedOf(evs, c) ==
    LET Mine(e) == e.creator_id = c
        mine == SelectSeq(evs, Mine)
    IN  SumInts([i \in 1..Len(mine) |-> mine[i].watched_seconds])

\* C14: in exact arithmetic, each watch_share is the creator's summed
\* watched_seconds over the grand total and the per-creator sums add up to
\* the grand total, so for a total > 0 the shares sum to 1; for a total of
\* 0 every share is 0.
C14_SharesSumToOne ==
    Shared =>
        LET grand == SumInts([i \in 1..Len(input) |-> input[i].watched_seconds])
            out == ret.value
        IN  /\ SumInts([k \in 1..Len(out) |-> out[k].watch_seconds]) = grand
            /\ \A k \in DOMAIN out :
                    /\ out[k].watch_seconds = WatchedOf(input, out[k].creator_id)
                    /\ IF grand > 0
                       THEN out[k].watch_share[1] * grand
                                = out[k].watch_seconds * out[k].watch_share[2]
                       ELSE out[k].watch_share = <<0, 1>>
            /\ grand > 0 => SumFracs([k \in 1..Len(out) |-> out[k].watch_share]) = <<1, 1>>

\* Totals of 75 and 25 for two creators, the larger made of two events.
C14_Witness ==
    /\ Shared /\ Len(input) = 3
    /\ Len(ret.value) = 2
    /\ ret.value[1].watch_share = <<3, 4>>
    /\ ret.value[2].watch_share = <<1, 4>>

---------------------------------------------------------------------------
(* Retention curve.                                                        *)

Curved == call = "retention_curve" /\ ret.raised = "none"

InputUsers == { input[i].user_id : i \in DOMAIN input }

\* The calendar days on which a user of the input has an event.
ActiveDays(u) ==
    { input[i].event_time \div DayMinutes : i \in { j \in DOMAIN input : input[j].user_id = u } }

FirstActiveDay(u) == CHOOSE d \in ActiveDays(u) : \A x \in ActiveDays(u) : d <= x

\* C15: retention_curve returns one RetentionPoint per requested offset in
\* the order requested; the rate for offset d is the number of users with
\* an event on their own first active day plus d, over the number of
\* distinct users (the same for every offset), hence within [0,1]; with no
\* events every rate is 0.
C15_RetentionRates ==
    Curved =>
        /\ Len(ret.value) = Len(days_given)
        /\ \A k \in DOMAIN ret.value :
                LET rate == ret.value[k].retention_rate
                    back == { u \in InputUsers :
                                FirstActiveDay(u) + days_given[k] \in ActiveDays(u) }
                IN  /\ ret.value[k].day = days_given[k]
                    /\ rate[1] * Cardinality(InputUsers) = Cardinality(back) * rate[2]
                    /\ 0 <= rate[1] /\ rate[1] <= rate[2] /\ rate[2] > 0

\* Offsets 7, 0, 7 over two users first active on different days, one of
\* them back seven days after its own first day.
C15_Witness ==
    /\ Curved /\ days_given = <<7, 0, 7>>
    /\ Cardinality(InputUsers) = 2
    /\ \E u, v \in InputUsers : FirstActiveDay(u) = 0 /\ FirstActiveDay(v) = 1
    /\ ret.value[1].retention_rate = <<1, 2>>
    /\ ret.value[2].retention_rate = <<1, 1>>
    /\ ret.value[3].retention_rate = <<1, 2>>

\* The example: three events of u1 at t0, t0 + 10 minutes and
\* t0 + 7 days + 5 minutes.
Example(t0) ==
    /\ Len(input) = 3
    /\ \A i \in DOMAIN input : input[i].user_id = "u1"
    /\ input[1].event_time = t0
    /\ input[2].event_time = t0 + 10
    /\ input[3].event_time = t0 + 7 * DayMinutes + 5

\* sessionize_events with gap 30 puts the first two events in u1-1 and the
\* third in u1-2.
ExampleSessions ==
    (call = "sessionize_events" /\ gap = 30) =>
        /\ ret.raised = "none"
        /\ Len(ret.value) = 3
        /\ \A i \in 1..3 : AsWatchEvent(ret.value[i]) = input[i]
        /\ ret.value[1].session_id = "u1-1"
        /\ ret.value[2].session_id = "u1-1"
        /\ ret.value[3].session_id = "u1-2"

\* C16 as stated: for any t0 the example gives the two sessions, and
\* retention_curve(days=[7]) gives the rate 1.
C16_ExampleAnyStart ==
    \A t0 \in WeekTimes :
        Example(t0) =>
            /\ ExampleSessions
            /\ (call = "retention_curve" /\ days_given = <<7>>) =>
                    ret = Ok(<< [day |-> 7, retention_rate |-> <<1, 1>>] >>)

\* C16 as amended: for any t0 the example gives the two sessions;
\* retention_curve(days=[7]) gives the rate 1 when t0 lies more than five
\* minutes before midnight, so that the third event falls on the seventh
\* calendar day after t0's, and the rate 0 otherwise.
C16_ExampleBeforeLastFiveMinutes ==
    \A t0 \in WeekTimes :
        Example(t0) =>
            /\ ExampleSessions
            /\ (call = "retention_curve" /\ days_given = <<7>>) =>
                    ret = Ok(<< [day |-> 7,
                                 retention_rate |->
                                    IF t0 % DayMinutes < DayMinutes - 5
                                    THEN <<1, 1>> ELSE <<0, 1>>] >>)

\* The example starting at midnight, given to retention_curve(days=[7]).
C16_Witness ==
    /\ Example(0)
    /\ call = "retention_curve" /\ days_given = <<7>>
    /\ ret.value[1].retention_rate = <<1, 1>>

---------------------------------------------------------------------------
(* Drop-off positions.                                                     *)

Dropped == call = "drop_off_positions" /\ ret.raised = "none"

\* The share of the input's events whose clamped completion ratio is
\* strictly below t; 0 with no events.
ShareBelow(t) ==
    LET below == { i \in DOMAIN input :
                    LET w == input[i].watched_seconds
                        d == input[i].video_duration
                        clamped == IF w >= d THEN <<1, 1>> ELSE <<w, d>>
                    IN  clamped[1] * t[2] < t[1] * clamped[2] }
    IN  IF input = <<>> THEN <<0, 1>> ELSE Frac(Cardinality(below), Len(input))

\* The label of a threshold: "below_" and the whole percents of t.
LabelOfThreshold(t) == "below_" \o ToString((t[1] * 100) \div t[2])

\* C17 as stated: the mapping has exactly one entry per threshold given,
\* and the entry of every given threshold t is the share of events whose
\* clamped completion ratio is strictly less than t.
C17_OneEntryPerThreshold ==
    Dropped =>
        /\ Cardinality(DOMAIN ret.value) = Cardinality(Range(thresholds_given))
        /\ \A k \in DOMAIN thresholds_given :
                /\ LabelOfThreshold(thresholds_given[k]) \in DOMAIN ret.value
                /\ ret.value[LabelOfThreshold(thresholds_given[k])]
                        = ShareBelow(thresholds_given[k])

\* C17 as the code has it: one entry per label, holding the share for the
\* last given threshold with that label.
C17_OneEntryPerLabel ==
    Dropped =>
        /\ DOMAIN ret.value
                = { LabelOfThreshold(thresholds_given[k]) : k \in DOMAIN thresholds_given }
        /\ \A k \in DOMAIN thresholds_given :
                (\A j \in (k + 1)..Len(thresholds_given) :
                    LabelOfThreshold(thresholds_given[j]) # LabelOfThreshold(thresholds_given[k]))
                    => ret.value[LabelOfThreshold(thresholds_given[k])]
                            = ShareBelow(thresholds_given[k])

\* Thresholds 0.5 and 0.505 over events of which some have a completion
\* ratio of exactly 0.5: one entry, holding the share for 0.505.
C17_Witness ==
    /\ Dropped
    /\ thresholds_given = << <<1, 2>>, <<101, 200>> >>
    /\ DOMAIN ret.value = {"below_50"}
    /\ ShareBelow(<<1, 2>>) # ShareBelow(<<101, 200>>)
    /\ ret.value["below_50"] = ShareBelow(<<101, 200>>)

---------------------------------------------------------------------------
(* Top creators.                                                           *)

\* One record per distinct creator_id of evs, each with the creator's
\* summed watched_seconds, in non-increasing watch_seconds order.
IsShareList(out, evs) ==
    /\ { out[k].creator_id : k \in DOMAIN out } = { evs[i].creator_id : i \in DOMAIN evs }
    /\ Len(out) = Cardinality({ evs[i].creator_id : i \in DOMAIN evs })
    /\ \A k \in DOMAIN out : out[k].watch_seconds = WatchedOf(evs, out[k].creator_id)
    /\ \A j, k \in DOMAIN out : j < k => out[j].watch_seconds >= out[k].watch_seconds

\* C18: creator_watch_share returns one record per distinct creator_id in
\* non-increasing watch_seconds order, and creator_contribution with
\* top_n >= 0 returns the first min(top_n, number of creators) records of
\* that list: no creator left out watched more than one returned.
C18_TopCreators ==
    /\ Shared => IsShareList(ret.value, input)
    /\ (call = "creator_contribution" /\ input.top_n >= 0) =>
            LET all == CreatorWatchShare(input.events).value
                n == IF input.top_n < Len(all) THEN input.top_n ELSE Len(all)
            IN  /\ ret.raised = "none"
                /\ IsShareList(all, input.events)
                /\ Len(ret.value) = n
                /\ \A k \in 1..n : ret.value[k] = all[k]
                /\ \A c \in { input.events[i].creator_id : i \in DOMAIN input.events } :
                        (\A k \in 1..n : ret.value[k].creator_id # c)
                            => \A k \in 1..n :
                                    ret.value[k].watch_seconds >= WatchedOf(input.events, c)

\* Three creators with different totals, the least watched given first,
\* and the top two asked for.
C18_Witness ==
    /\ call = "creator_contribution" /\ input.top_n = 2
    /\ Len(input.events) = 3
    /\ Len(ret.value) = 2
    /\ ret.value[1].watch_seconds = 75 /\ ret.value[2].watch_seconds = 25
    /\ input.events[1].watched_seconds = 0
    /\ input.events[1].creator_id \notin { ret.value[1].creator_id, ret.value[2].creator_id }

---------------------------------------------------------------------------
(* Records that break the session invariant.                               *)

\* Members of one session_id disagree on session_start or on user_id.
BreaksSessionInvariant(records) ==
    \E i, j \in DOMAIN records :
        /\ records[i].session_id = records[j].session_id
        /\ \/ records[i].session_start # records[j].session_start
           \/ records[i].user_id # records[j].user_id

\* C19 as stated: given records that break the session invariant,
\* aggregate_sessions fails with an error and returns no summary.
C19_FailsLoudly ==
    (call = "aggregate_sessions" /\ BreaksSessionInvariant(input)) => ret.raised # "none"

\* C19 as the code has it: it raises nothing and returns one summary per
\* session_id, which for disagreeing members carries the session_start and
\* user_id of the member earliest in event_time (the first given among
\* those).
C19_TakesEarliestMember ==
    (call = "aggregate_sessions" /\ BreaksSessionInvariant(input)) =>
        /\ ret.raised = "none"
        /\ \A k \in DOMAIN ret.value :
                LET members == { i \in DOMAIN input :
                                    input[i].session_id = ret.value[k].session_id }
                    first == CHOOSE i \in members :
                                \A j \in members :
                                    \/ input[i].event_time < input[j].event_time
                                    \/ input[i].event_time = input[j].event_time /\ i <= j
                IN  /\ ret.value[k].session_start = input[first].session_start
                    /\ ret.value[k].user_id = input[first].user_id

\* Two batches that each open u1-1, at different times: one summary comes
\* back for both.
C19_Witness ==
    /\ call = "aggregate_sessions" /\ ret.raised = "none"
    /\ Len(input) = 2
    /\ input[1].session_id = "u1-1" /\ input[2].session_id = "u1-1"
    /\ input[1].session_start # input[2].session_start
    /\ Len(ret.value) = 1

---------------------------------------------------------------------------
(* Concurrent calls.                                                       *)

\* What a call returns when it runs alone.
Alone(fn, arg) ==
    IF fn = "sessionize_events" THEN SessionizeEvents(arg, DefaultGap)
    ELSE AggregateSessions(arg)

\* C20: under every interleaving of the two calls' steps each call that
\* has returned has returned what it returns alone; in a sessionize_events
\* result every user's ordinals start at 1; and the sequence each caller
\* passed is as it was.
C20_CallsIndependent ==
    \A t \in DOMAIN frames :
        /\ frames[t].arg = input[t]
        /\ frames[t].pc = "done" =>
                /\ frames[t].result = Alone(frames[t].fn, input[t])
                /\ frames[t].fn = "sessionize_events" =>
                        \A i \in DOMAIN frames[t].result.value :
                            \E j \in DOMAIN frames[t].result.value :
                                frames[t].result.value[j].session_id
                                    = frames[t].result.value[i].user_id \o "-1"

\* Both calls have returned after running in overlap, both sessionized
\* two sessions of u1.
C20_Witness ==
    /\ frames # <<>>
    /\ \A t \in Threads :
        /\ frames[t].pc = "done" /\ frames[t].overlapped
        /\ frames[t].fn = "sessionize_events"
        /\ \E i, j \in DOMAIN frames[t].result.value :
            /\ frames[t].result.value[i].session_id = "u1-1"
            /\ frames[t].result.value[j].session_id = "u1-2"

---------------------------------------------------------------------------
(* Nothing divides by zero.                                                *)

Malformed(r) ==
    \/ r.video_duration <= 0
    \/ r.watched_seconds < 0
    \/ r.user_id = ""
    \/ r.video_id = ""
    \/ r.creator_id = ""

ComputesRatios == call \in {"sessionize_events", "completion_rate", "drop_off_positions"}

\* C21: no call ends in a division by zero; a call that constructs its
\* events from records of which one has video_duration <= 0, negative
\* watched_seconds or an empty user_id, video_id or creator_id ends with
\* ValueError, and a call that computes watched_seconds / video_duration
\* and returns was given no such record.
C21_NoDivisionByZero ==
    /\ ret.raised # "ZeroDivisionError"
    /\ (call # "none" /\ \E i \in DOMAIN input : Malformed(input[i]))
            => ret = Raise("ValueError")
    /\ (ComputesRatios /\ ret.raised = "none")
            => \A i \in DOMAIN input : ~Malformed(input[i])

C21_Witness ==
    /\ call = "sessionize_events"
    /\ Len(input) = 2
    /\ ~Malformed(input[1])
    /\ input[2].video_duration = 0
    /\ ret = Raise("ValueError")

---------------------------------------------------------------------------
(* The start of a session.                                                 *)

\* The event times of the output records that carry session_id id.
MemberTimes(out, id) == { out[i].event_time : i \in { k \in DOMAIN out : out[k].session_id = id } }

\* C22: in the output of sessionize_events every record's session_start is
\* the earliest event_time among the records with its session_id, so the
\* records of one session all carry the same session_start.
C22_SessionStartIsFirstEvent ==
    Sessionized =>
        \A i \in DOMAIN ret.value :
            /\ ret.value[i].session_start \in MemberTimes(ret.value, ret.value[i].session_id)
            /\ \A t \in MemberTimes(ret.value, ret.value[i].session_id) :
                    ret.value[i].session_start <= t
            /\ \A j \in DOMAIN ret.value :
                    ret.value[j].session_id = ret.value[i].session_id
                        => ret.value[j].session_start = ret.value[i].session_start

C22_Witness ==
    /\ Sessionized
    /\ \E i, j \in DOMAIN ret.value :
        /\ ret.value[i].session_id = ret.value[j].session_id
        /\ ret.value[i].event_time < ret.value[j].event_time
        /\ ret.value[j].session_start = ret.value[i].event_time

---------------------------------------------------------------------------
(* The fields of a session summary.                                        *)

\* The records given to aggregate_sessions that carry session_id id.
MembersOf(id) == LET Member(e) == e.session_id = id IN SelectSeq(input, Member)

FromSessionize ==
    /\ Aggregated
    /\ SessionizeEvents(events, gap).raised = "none"
    /\ input \in Orderings(SessionizeEvents(events, gap).value)

\* C23: each summary aggregate_sessions builds from the output of
\* sessionize_events has session_end the latest and session_start the
\* earliest event_time of its members, session_watch_seconds the sum of
\* their watched_seconds, videos_watched and creators_engaged the numbers
\* of their distinct video_id and creator_id; session_duration_minutes is
\* session_end - session_start in minutes, never negative, and 0 for a
\* session of one event.
C23_SummaryFields ==
    FromSessionize =>
        \A k \in DOMAIN ret.value :
            LET s == ret.value[k]
                members == MembersOf(s.session_id)
                times == { members[i].event_time : i \in DOMAIN members }
            IN  /\ members # <<>>
                /\ s.session_end \in times
                /\ \A t \in times : t <= s.session_end
                /\ s.session_start \in times
                /\ \A t \in times : s.session_start <= t
                /\ s.session_watch_seconds =
                        SumInts([i \in DOMAIN members |-> members[i].watched_seconds])
                /\ s.videos_watched =
                        Cardinality({ members[i].video_id : i \in DOMAIN members })
                /\ s.creators_engaged =
                        Cardinality({ members[i].creator_id : i \in DOMAIN members })
                /\ s.session_start <= s.session_end
                /\ s.session_duration_minutes = <<s.session_end - s.session_start, 1>>
                /\ FracLeq(FracZero, s.session_duration_minutes)
                /\ Len(members) = 1 => s.session_duration_minutes = FracZero

\* A session of two events at different times, given latest first, and a
\* session of one event.
C23_Witness ==
    /\ FromSessionize
    /\ \E k \in DOMAIN ret.value :
        /\ Len(MembersOf(ret.value[k].session_id)) = 2
        /\ MembersOf(ret.value[k].session_id)[1].event_time
                > MembersOf(ret.value[k].session_id)[2].event_time
        /\ ret.value[k].session_duration_minutes = <<30, 1>>
    /\ \E k \in DOMAIN ret.value :
        /\ Len(MembersOf(ret.value[k].session_id)) = 1
        /\ ret.value[k].session_duration_minutes = FracZero

---------------------------------------------------------------------------
(* The user features.                                                      *)

Featured == call = "create_user_features" /\ ret.raised = "none"

Earliest(times) == CHOOSE t \in times : \A x \in times : t <= x
Latest(times) == CHOOSE t \in times : \A x \in times : x <= t

\* What the claim says the features of user u are, from the records that
\* sessionize_events returns for the same events and gap.
ExpectedFeatures(evs, gap_minutes, u) ==
    LET out == SessionizeEvents(evs, gap_minutes).value
        mine == OfUser(out, u)
        n == Cardinality({ mine[i].session_id : i \in DOMAIN mine })
        Session(k) == LET In(r) == r.session_id = SessionId(u, k) IN SelectSeq(mine, In)
        Minutes(k) ==
            LET times == { Session(k)[i].event_time : i \in DOMAIN Session(k) }
            IN  <<Latest(times) - Earliest(times), 1>>
        MeanCompletion(k) ==
            FracDivInt(SumFracs([i \in DOMAIN Session(k) |-> Session(k)[i].completion_ratio]),
                       Len(Session(k)))
    IN  [sessions |-> n,
         avg_session_minutes |-> FracDivInt(SumFracs([k \in 1..n |-> Minutes(k)]), n),
         total_watch_seconds |->
            SumInts([i \in DOMAIN mine |-> mine[i].watched_seconds]),
         mean_completion_ratio |->
            FracDivInt(SumFracs([k \in 1..n |-> MeanCompletion(k)]), n)]

\* C24: create_user_features returns one entry for each user with an event;
\* its sessions is the number of distinct sessions sessionize_events gives
\* the user, total_watch_seconds the sum of the user's watched_seconds, and
\* avg_session_minutes and mean_completion_ratio the unweighted means over
\* the user's sessions; as_vector lists sessions, avg_session_minutes,
\* total_watch_seconds, mean_completion_ratio in that order.
C24_UserFeatures ==
    /\ Featured =>
        /\ DOMAIN ret.value = InputUsers
        /\ \A u \in DOMAIN ret.value : ret.value[u] = ExpectedFeatures(input, gap, u)
    /\ call = "as_vector" =>
        /\ Len(ret.value) = 4
        /\ ret.value[1] = <<input.sessions, 1>>
        /\ ret.value[2] = input.avg_session_minutes
        /\ ret.value[3] = <<input.total_watch_seconds, 1>>
        /\ ret.value[4] = input.mean_completion_ratio

\* A user with two sessions of different lengths.
C24_Witness ==
    /\ Featured
    /\ \E u \in DOMAIN ret.value :
        /\ ret.value[u].sessions = 2
        /\ ret.value[u].avg_session_minutes = <<15, 1>>

---------------------------------------------------------------------------
(* One user's sessions do not depend on the other users.                   *)

\* The events of the input that belong to user u, in input order.
EventsOf(u) == LET Mine(e) == e.user_id = u IN SelectSeq(input, Mine)

AssignmentsOf(out, u) == [i \in DOMAIN OfUser(out, u) |-> Assignment(OfUser(out, u)[i])]

\* C25: the session_id and session_start sessionize_events gives the events
\* of a user are those it gives them when the events of every other user
\* are removed from the input.
C25_UsersIndependent ==
    Sessionized =>
        \A u \in InputUsers :
            AssignmentsOf(ret.value, u) =
                AssignmentsOf(SessionizeEvents(EventsOf(u), gap).value, u)

\* Two users in one input, one of them with a second session.
C25_Witness ==
    /\ Sessionized
    /\ Cardinality(InputUsers) = 2
    /\ \E i \in DOMAIN ret.value : ret.value[i].session_id = SessionId(ret.value[i].user_id, 2)

---------------------------------------------------------------------------
(* A larger gap gives coarser sessions.                                    *)

\* The gaps the returned sessions are compared with: those of the calls and
\* the two largest distances between event times.
CoarserGaps == GapValues \cup {1420, 1450}

SessionsOf(out, u) == { out[i].session_id : i \in { k \in DOMAIN out : out[k].user_id = u } }

\* out2 is no finer than out1: the same events at the same positions, and
\* positions that share a session in out1 share one in out2.
Coarsens(out1, out2) ==
    /\ Len(out1) = Len(out2)
    /\ \A i \in DOMAIN out1 : AsWatchEvent(out1[i]) = AsWatchEvent(out2[i])
    /\ \A i, j \in DOMAIN out1 :
            out1[i].session_id = out1[j].session_id
                => out2[i].session_id = out2[j].session_id
    /\ \A u \in UserIds :
            Cardinality(SessionsOf(out2, u)) <= Cardinality(SessionsOf(out1, u))

\* C26: for the same events and gaps 0 <= g1 <= g2, events that share a
\* session under g1 share one under g2, and no user has more sessions under
\* g2 than under g1.
C26_LargerGapCoarsens ==
    (Sessionized /\ gap >= 0) =>
        \A g2 \in { g \in CoarserGaps : g >= gap } :
            Coarsens(ret.value, SessionizeEvents(input, g2).value)

\* Two sessions under gap 29 that are one session under gap 30.
C26_Witness ==
    /\ Sessionized
    /\ gap = 29
    /\ \E u \in InputUsers :
        /\ Cardinality(SessionsOf(ret.value, u)) = 2
        /\ Cardinality(SessionsOf(SessionizeEvents(input, 30).value, u)) = 1

---------------------------------------------------------------------------
(* The dataset keeps every user.                                           *)

Prepared == call = "prepare_churn_dataset" /\ ret.raised = "none"

\* C27: the users of the dataset prepare_churn_dataset returns are the
\* distinct user_ids of its events in ascending order, none left out, and
\* the dataset is empty exactly when the events are.
C27_NoUserDropped ==
    Prepared =>
        /\ Range(ret.value.users) = InputUsers
        /\ \A i, j \in DOMAIN ret.value.users :
                i < j => StrLess(ret.value.users[i], ret.value.users[j])
        /\ Len(ret.value.features) = Len(ret.value.users)
        /\ Len(ret.value.target) = Len(ret.value.users)
        /\ IsEmpty(ret.value) <=> input = <<>>

\* Two users given in descending order, one of them seen on a single day.
C27_Witness ==
    /\ Prepared
    /\ Len(input) = 3
    /\ input[1].user_id = "u1-1"
    /\ input[2].user_id = "u1"
    /\ input[3].user_id = "u1"
    /\ DateOf(input[2].event_time) # DateOf(input[3].event_time)
    /\ ret.value.users = <<"u1", "u1-1">>

=============================================================================
